---- MODULE Spec2Model ----
(***************************************************************************)
(* Command execution engine of exec-action (src/src/main.ts).              *)
(*                                                                         *)
(* One record per executeCommand invocation holds the closure variables   *)
(* of the promise executor (stdout, stderr, combinedOutput, settled,      *)
(* writeFd, readerEnded), the promise, the child process, the FIFO, the   *)
(* reader stream and the signal handlers.  Every action is one event-loop *)
(* callback of the single JavaScript thread; the listeners of one emitted *)
(* event run inside one action, in the order they were registered.        *)
(*                                                                         *)
(* Spec is the whole engine.  SpecOutput is the engine while no signal    *)
(* arrives and SpecSignals the engine with children that write nothing:   *)
(* signal handling touches only the handler registrations and the kill    *)
(* calls, output capture only the buffers and pipes, so each property is  *)
(* checked where its part of the state moves.                             *)
(*                                                                         *)
(* SpecRun is run(), the entry point of the action, with the engine it    *)
(* calls once: the inputs read through getInput, the exit-code policy     *)
(* parsed by parseSuccessExitCodes, the outputs and the failure written   *)
(* through setOutput and setFailed (the ::debug:: lines run() prints are  *)
(* not kept).  SpecParse is parseCommand alone, followed character by     *)
(* character on every short command string.                               *)
(***************************************************************************)
EXTENDS Integers, Sequences, FiniteSets, TLC

\* ------------------------------------------------------------------ bounds
\* Number of executeCommand invocations made one after the other.
MaxInvocations == 1
\* Number of write calls the children make on their output streams, all
\* invocations together.
MaxWrites == 3
\* Number of signals the process receives in one behaviour.
MaxSignals == 1
\* Length of the command strings whose scan is followed character by
\* character.
MaxCommandLen == 5
\* Length of the policy strings parseSuccessExitCodes is applied to.
MaxPolicyLen == 5
\* Largest timeout waitForCompletion is called with, in milliseconds.
MaxTimeout == 25
\* Number of chunks written into one FifoPipe.
MaxPipeWrites == 2
\* Number of calls of close() and of closeWriteFd() on one FifoPipe.
MaxCalls == 2
\* Number of executeCommand invocations in flight at the same time.
MaxConcurrent == 2

\* --------------------------------------------------------------- constants
\* The signals setupSignalHandlers registers a handler for.
signals == {"SIGINT", "SIGTERM", "SIGQUIT", "SIGHUP", "SIGPIPE", "SIGABRT"}

\* Exit statuses a child can report: numeric codes, and null (NullCode) when
\* it was terminated by a signal.  SpawnErrCode is the negative errno Node
\* passes to 'close' after a failed spawn.
NullCode == -1
SpawnErrCode == -2
ExitCodes == {0, 42}

\* Command strings handed to executeCommand, as sequences of characters.
Commands ==
    { <<>>,
      <<" ">>,
      <<"x">>,
      <<"x", " ", "y">>,
      <<"\"", "x">>,
      <<"x", "\\">>,
      <<" ", "\t">>,
      <<"\"", "\"">> }

VARIABLES
    inv,        \* inv[i]: the state of the i-th executeCommand invocation
    started,    \* number of invocations made so far
    received,   \* the signals the process has received, in order
    harness,    \* the state of run(): its inputs, locals, outputs and failures
    scan,       \* the state of one parseCommand scan taken character by character
    policyCall, \* one parseSuccessExitCodes call: its input and what it returned
    pipe        \* the state of one FifoPipe object and of its caller

vars == <<inv, started, received, harness, scan, policyCall, pipe>>

Invocations == 1..MaxInvocations

\* ------------------------------------------------------- string functions
\* Strings are sequences of characters.  Whitespace as the scanner and
\* String.prototype.trim see it in the inputs used here.
Whitespace == {" ", "\t", "\n"}

RECURSIVE TrimStart(_)
TrimStart(s) ==
    IF s # <<>> /\ Head(s) \in Whitespace THEN TrimStart(Tail(s)) ELSE s

RECURSIVE TrimEnd(_)
TrimEnd(s) ==
    IF s # <<>> /\ s[Len(s)] \in Whitespace
    THEN TrimEnd(SubSeq(s, 1, Len(s) - 1))
    ELSE s

\* s.trim()
Trim(s) == TrimEnd(TrimStart(s))

\* s.includes(char)
Includes(s, char) == \E k \in 1..Len(s) : s[k] = char

\* s.split(sep) for a one-character separator: the pieces between the
\* separators, k being the position scanned and piece the piece begun.
RECURSIVE SplitFrom(_, _, _, _)
SplitFrom(s, sep, k, piece) ==
    IF k > Len(s) THEN <<piece>>
    ELSE IF s[k] = sep THEN <<piece>> \o SplitFrom(s, sep, k + 1, <<>>)
    ELSE SplitFrom(s, sep, k + 1, Append(piece, s[k]))

Split(s, sep) == SplitFrom(s, sep, 1, <<>>)

UpperCase == <<"A", "B", "C", "D", "E", "F", "G", "H", "I", "J", "K", "L", "M",
               "N", "O", "P", "Q", "R", "S", "T", "U", "V", "W", "X", "Y", "Z">>
LowerCase == <<"a", "b", "c", "d", "e", "f", "g", "h", "i", "j", "k", "l", "m",
               "n", "o", "p", "q", "r", "s", "t", "u", "v", "w", "x", "y", "z">>

\* s.toLowerCase()
toLowerCase(s) ==
    [k \in 1..Len(s) |->
        IF \E n \in 1..26 : UpperCase[n] = s[k]
        THEN LowerCase[CHOOSE n \in 1..26 : UpperCase[n] = s[k]]
        ELSE s[k]]

DecimalDigits == <<"0", "1", "2", "3", "4", "5", "6", "7", "8", "9">>

IsDigit(char) == \E n \in 1..10 : DecimalDigits[n] = char

DigitValue(char) == (CHOOSE n \in 1..10 : DecimalDigits[n] = char) - 1

\* The value of the longest run of digits of s that starts at position k,
\* acc being the value of the digits read so far.
RECURSIVE DigitsValue(_, _, _)
DigitsValue(s, k, acc) ==
    IF k <= Len(s) /\ IsDigit(s[k])
    THEN DigitsValue(s, k + 1, acc * 10 + DigitValue(s[k]))
    ELSE acc

\* parseInt(s, 10): leading whitespace is skipped, a sign is accepted, the
\* digits that follow are read up to the first other character, and the
\* result is NaN when no digit follows.
parseInt(s) ==
    LET t == TrimStart(s)
        signed == t # <<>> /\ Head(t) \in {"-", "+"}
        digits == IF signed THEN Tail(t) ELSE t
        value == DigitsValue(digits, 1, 0)
    IN  IF digits = <<>> \/ ~IsDigit(Head(digits))
        THEN [nan |-> TRUE, value |-> 0]
        ELSE [nan |-> FALSE,
              value |-> IF signed /\ Head(t) = "-" THEN 0 - value ELSE value]

\* n.toString() of an integer, and its interpolation in a template literal.
RECURSIVE NatToString(_)
NatToString(n) ==
    IF n < 10 THEN <<DecimalDigits[n + 1]>>
    ELSE Append(NatToString(n \div 10), DecimalDigits[(n % 10) + 1])

toString(n) == IF n < 0 THEN <<"-">> \o NatToString(0 - n) ELSE NatToString(n)

\* ------------------------------------------------------------ parseCommand
\* The scan state of parseCommand; inQuotes = "" stands for null.
ParseInit == [args |-> <<>>, current |-> <<>>, inQuotes |-> "", escaped |-> FALSE]

\* A loop body in which either quote character closes a quoted span.
ParseStepAnyQuoteCloses(st, char) ==
    IF st.escaped
    THEN [st EXCEPT !.current = Append(@, char), !.escaped = FALSE]
    ELSE IF char = "\\"
    THEN [st EXCEPT !.escaped = TRUE]
    ELSE IF st.inQuotes # ""
    THEN IF char = "\"" \/ char = "'"
         THEN [st EXCEPT !.inQuotes = ""]
         ELSE [st EXCEPT !.current = Append(@, char)]
    ELSE IF char = "\"" \/ char = "'"
    THEN [st EXCEPT !.inQuotes = char]
    ELSE IF char = " " \/ char = "\t" \/ char = "\n"
    THEN IF Len(st.current) > 0
         THEN [st EXCEPT !.args = Append(@, st.current), !.current = <<>>]
         ELSE st
    ELSE [st EXCEPT !.current = Append(@, char)]

\* A loop body in which a backslash inside a quoted span is an ordinary
\* character.
ParseStepQuotedBackslashLiteral(st, char) ==
    IF st.escaped
    THEN [st EXCEPT !.current = Append(@, char), !.escaped = FALSE]
    ELSE IF char = "\\" /\ st.inQuotes = ""
    THEN [st EXCEPT !.escaped = TRUE]
    ELSE IF st.inQuotes # ""
    THEN IF char = st.inQuotes
         THEN [st EXCEPT !.inQuotes = ""]
         ELSE [st EXCEPT !.current = Append(@, char)]
    ELSE IF char = "\"" \/ char = "'"
    THEN [st EXCEPT !.inQuotes = char]
    ELSE IF char = " " \/ char = "\t" \/ char = "\n"
    THEN IF Len(st.current) > 0
         THEN [st EXCEPT !.args = Append(@, st.current), !.current = <<>>]
         ELSE st
    ELSE [st EXCEPT !.current = Append(@, char)]

\* A loop body that flushes the accumulator at every unquoted whitespace
\* character, empty or not.
ParseStepAlwaysFlush(st, char) ==
    IF st.escaped
    THEN [st EXCEPT !.current = Append(@, char), !.escaped = FALSE]
    ELSE IF char = "\\"
    THEN [st EXCEPT !.escaped = TRUE]
    ELSE IF st.inQuotes # ""
    THEN IF char = st.inQuotes
         THEN [st EXCEPT !.inQuotes = ""]
         ELSE [st EXCEPT !.current = Append(@, char)]
    ELSE IF char = "\"" \/ char = "'"
    THEN [st EXCEPT !.inQuotes = char]
    ELSE IF char = " " \/ char = "\t" \/ char = "\n"
    THEN [st EXCEPT !.args = Append(@, st.current), !.current = <<>>]
    ELSE [st EXCEPT !.current = Append(@, char)]

\* One iteration of the for loop of parseCommand on character char.
ParseStep(st, char) ==
    IF st.escaped
    THEN [st EXCEPT !.current = Append(@, char), !.escaped = FALSE]
    ELSE IF char = "\\"
    THEN [st EXCEPT !.escaped = TRUE]
    ELSE IF st.inQuotes # ""
    THEN IF char = st.inQuotes
         THEN [st EXCEPT !.inQuotes = ""]
         ELSE [st EXCEPT !.current = Append(@, char)]
    ELSE IF char = "\"" \/ char = "'"
    THEN [st EXCEPT !.inQuotes = char]
    ELSE IF char = " " \/ char = "\t" \/ char = "\n"
    THEN IF Len(st.current) > 0
         THEN [st EXCEPT !.args = Append(@, st.current), !.current = <<>>]
         ELSE st
    ELSE [st EXCEPT !.current = Append(@, char)]

RECURSIVE ParseScan(_, _, _)
ParseScan(command, i, st) ==
    IF i > Len(command) THEN st
    ELSE ParseScan(command, i + 1, ParseStep(st, command[i]))

\* The end-of-scan checks that look at inQuotes before escaped.
ParseEndQuoteFirst(st) ==
    IF st.inQuotes # ""
    THEN [ok |-> FALSE, error |-> "unclosed quote", args |-> <<>>]
    ELSE IF st.escaped
    THEN [ok |-> FALSE, error |-> "incomplete escape sequence", args |-> <<>>]
    ELSE [ok |-> TRUE, error |-> "none",
          args |-> IF Len(st.current) > 0 THEN Append(st.args, st.current)
                   ELSE st.args]

\* The end of parseCommand without the flush of the accumulator.
ParseEndNoFlush(st) ==
    IF st.escaped
    THEN [ok |-> FALSE, error |-> "incomplete escape sequence", args |-> <<>>]
    ELSE IF st.inQuotes # ""
    THEN [ok |-> FALSE, error |-> "unclosed quote", args |-> <<>>]
    ELSE [ok |-> TRUE, error |-> "none", args |-> st.args]

\* The statements of parseCommand after the loop: the two throws and the
\* flush of the accumulator.
ParseEnd(st) ==
    IF st.escaped
    THEN [ok |-> FALSE, error |-> "incomplete escape sequence", args |-> <<>>]
    ELSE IF st.inQuotes # ""
    THEN [ok |-> FALSE, error |-> "unclosed quote", args |-> <<>>]
    ELSE [ok |-> TRUE, error |-> "none",
          args |-> IF Len(st.current) > 0 THEN Append(st.args, st.current)
                   ELSE st.args]

\* parseCommand(command): the argument vector, or the error it throws.
parseCommand(command) == ParseEnd(ParseScan(command, 1, ParseInit))

\* The characters of the scanned command strings: a plain character, a
\* whitespace character, both quotes and the backslash.
ScanAlphabet == {"a", " ", "\"", "'", "\\"}

ScanCommands == UNION {[1..n -> ScanAlphabet] : n \in 0..MaxCommandLen}

\* A call of parseCommand(command) that is about to enter its loop.
NewScan(command) ==
    [command |-> command, i |-> 1, st |-> ParseInit, returned |-> FALSE,
     result |-> [ok |-> FALSE, error |-> "none", args |-> <<>>]]

\* No call of parseCommand is being followed.
NoScan == [NewScan(<<>>) EXCEPT !.i = 0]

\* ----------------------------------------------------- invocation records
NoResult == [stdout |-> <<>>, stderr |-> <<>>, combinedOutput |-> <<>>,
             exitCode |-> NullCode]

\* An invocation that has not been made yet.
NoInv ==
    [ command |-> <<>>,            \* the parameters of executeCommand
      separateOutputs |-> FALSE,
      \* closure variables of the executor
      stdout |-> <<>>, stderr |-> <<>>, combinedOutput |-> <<>>,
      processStdout |-> <<>>,      \* what the invocation wrote to process.stdout
      processStderr |-> <<>>,      \* what the invocation wrote to process.stderr
      settled |-> FALSE,
      readerEnded |-> FALSE,
      writeFd |-> "null",          \* the variable writeFd: "null" or "fd"
      \* the promise returned by executeCommand
      outcome |-> "pending",       \* "pending", "resolved", "rejected"
      settleCalls |-> 0,           \* calls of resolve or reject
      result |-> NoResult,
      error |-> "none",
      \* the child process
      child |-> "none",            \* "none", "running", "exited", "spawnfail"
      code |-> NullCode,
      closeDelivered |-> FALSE,
      errorDelivered |-> FALSE,
      written |-> <<>>,            \* stream of the k-th chunk the child wrote
      pipeOut |-> <<>>,            \* chunks in flight on the stdout pipe
      pipeErr |-> <<>>,            \* chunks in flight on the stderr pipe
      pipeFifo |-> <<>>,           \* chunks in flight in the FIFO
      \* signal handling
      signalHandlers |-> {},       \* keys of the Map signalHandlers
      listeners |-> {},            \* handlers of this invocation on process
      kills |-> <<>>,              \* child.kill calls, in order
      \* combined-output channel
      fifo |-> "none",             \* node at fifoPath: "none", "exists", "unlinked"
      reader |-> "none",           \* "none", "open", "destroyed"
      fdState |-> "none",          \* write descriptor: "none", "open", "closed"
      closeSyncCalls |-> 0,
      unlinkCalls |-> 0,           \* calls of unlinkSync(fifoPath)
      writerTimer |-> FALSE,       \* the setTimeout(..., 50) that opens the writer
      finalizeTimer |-> FALSE,     \* the setTimeout(finalize, 50) of the close handler
      finalizeCode |-> NullCode
    ]

\* resolve(value) of the promise: only the first resolve or reject counts.
Resolve(r, exitCode) ==
    [r EXCEPT !.settleCalls = @ + 1,
              !.outcome = IF @ = "pending" THEN "resolved" ELSE @,
              !.result = IF r.outcome = "pending"
                         THEN [stdout |-> r.stdout, stderr |-> r.stderr,
                               combinedOutput |-> r.combinedOutput,
                               exitCode |-> exitCode]
                         ELSE @]

\* reject(error) of the promise.
Reject(r, err) ==
    [r EXCEPT !.settleCalls = @ + 1,
              !.outcome = IF @ = "pending" THEN "rejected" ELSE @,
              !.error = IF r.outcome = "pending" THEN err ELSE @]

\* code ?? 0
CodeOrZero(code) == IF code = NullCode THEN 0 ELSE code

\* unlinkSync(fifoPath) inside try/catch: removes the node when it exists,
\* throws (swallowed) otherwise.
Unlink(r) ==
    [r EXCEPT !.fifo = IF @ = "exists" THEN "unlinked" ELSE @,
              !.unlinkCalls = @ + 1]

\* closeSync(writeFd) inside try/catch.
CloseSync(r) ==
    [r EXCEPT !.fdState = IF @ = "open" THEN "closed" ELSE @,
              !.closeSyncCalls = @ + 1]

\* reader.destroy(): the stream is closed and what it had not read is lost.
ReaderDestroy(r) == [r EXCEPT !.reader = "destroyed", !.pipeFifo = <<>>]

\* -------------------------------------------------------- signal handlers
\* setupSignalHandlers, registration part: one handler per signal is stored
\* in the Map signalHandlers and registered on process.
setupSignalHandlers(r) ==
    [r EXCEPT !.signalHandlers = signals, !.listeners = @ \cup signals]

\* A handler that sends SIGTERM whatever signal it was registered for.
SignalHandlerTerm(r, signal) == [r EXCEPT !.kills = Append(@, "SIGTERM")]

\* A handler that marks the invocation settled after forwarding.
SignalHandlerSettles(r, signal) ==
    [r EXCEPT !.kills = Append(@, signal), !.settled = TRUE]

\* The handler registered for signal: child.kill(signal).
SignalHandler(r, signal) == [r EXCEPT !.kills = Append(@, signal)]

\* ----------------------------------------------------------- separate mode
\* A stdout listener that also appends to combinedOutput.
StdoutOnDataBoth(r, chunk) ==
    [r EXCEPT !.stdout = Append(@, chunk), !.combinedOutput = Append(@, chunk),
              !.processStdout = Append(@, chunk)]

\* child.stdout.on('data'): stdout += text; process.stdout.write(text)
StdoutOnData(r, chunk) ==
    [r EXCEPT !.stdout = Append(@, chunk), !.processStdout = Append(@, chunk)]

\* A stderr listener that appends to the stdout buffer.
StderrOnDataToStdout(r, chunk) ==
    [r EXCEPT !.stdout = Append(@, chunk), !.processStderr = Append(@, chunk)]

\* child.stderr.on('data'): stderr += text; process.stderr.write(text)
StderrOnData(r, chunk) ==
    [r EXCEPT !.stderr = Append(@, chunk), !.processStderr = Append(@, chunk)]

\* The cleanup callback handed to setupSignalHandlers in separate mode.
SeparateCleanup(r) ==
    IF ~r.settled THEN Resolve([r EXCEPT !.settled = TRUE], 0) ELSE r

\* child.on('error') of separate mode.
SeparateOnError(r) ==
    IF ~r.settled THEN Reject([r EXCEPT !.settled = TRUE], "spawn") ELSE r

\* A close handler without the guard on settled.
SeparateOnCloseUnguarded(r, code) ==
    Resolve([r EXCEPT !.settled = TRUE], CodeOrZero(code))

\* child.on('close') of separate mode.
SeparateOnClose(r, code) ==
    IF ~r.settled
    THEN Resolve([r EXCEPT !.settled = TRUE], CodeOrZero(code))
    ELSE r

\* A data listener that puts the new chunk in front of the buffer.
ReaderOnDataPrepend(r, chunk) ==
    [r EXCEPT !.combinedOutput = <<chunk>> \o @,
              !.processStdout = Append(@, chunk)]

\* A data listener that mirrors the chunk to the caller's stderr.
ReaderOnDataToStderr(r, chunk) ==
    [r EXCEPT !.combinedOutput = Append(@, chunk),
              !.processStderr = Append(@, chunk)]

\* ----------------------------------------------------------- combined mode
\* reader.on('data'): combinedOutput += text; process.stdout.write(text)
ReaderOnData(r, chunk) ==
    [r EXCEPT !.combinedOutput = Append(@, chunk),
              !.processStdout = Append(@, chunk)]

\* reader.on('end')
ReaderOnEnd(r) == [r EXCEPT !.readerEnded = TRUE]

\* A reader error handler that leaves the FIFO node in place.
ReaderOnErrorNoUnlink(r) ==
    IF ~r.settled
    THEN Reject(ReaderDestroy([r EXCEPT !.settled = TRUE]), "reader")
    ELSE r

\* reader.on('error')
ReaderOnError(r) ==
    IF ~r.settled
    THEN Reject(Unlink(ReaderDestroy([r EXCEPT !.settled = TRUE])), "reader")
    ELSE r

\* The cleanup callback handed to setupSignalHandlers in combined mode.
CombinedCleanup(r) ==
    IF ~r.settled
    THEN LET r1 == [r EXCEPT !.settled = TRUE]
             r2 == IF r1.writeFd # "null" THEN CloseSync(r1) ELSE r1
         IN  ReaderDestroy(r2)
    ELSE r

\* A cleanup that clears the Map without removing the handlers from process.
cleanupSignalHandlersKeep(r) ==
    LET r1 == [r EXCEPT !.signalHandlers = {}]
    IN  IF r.separateOutputs THEN SeparateCleanup(r1) ELSE CombinedCleanup(r1)

\* cleanupSignalHandlers: removes every handler of the Map from process,
\* clears the Map, then calls the cleanup callback it was given, which is
\* the one of the invocation's mode.
cleanupSignalHandlers(r) ==
    LET r1 == [r EXCEPT !.listeners = @ \ r.signalHandlers,
                        !.signalHandlers = {}]
    IN  IF r.separateOutputs THEN SeparateCleanup(r1) ELSE CombinedCleanup(r1)

\* child.on('error') of combined mode.
CombinedOnError(r) ==
    IF ~r.settled
    THEN LET r1 == [r EXCEPT !.settled = TRUE]
             r2 == IF r1.writeFd # "null" THEN CloseSync(r1) ELSE r1
         IN  Reject(ReaderDestroy(r2), "spawn")
    ELSE r

\* finalize() of the combined close handler.
Finalize(r, code) == Resolve(ReaderDestroy(r), CodeOrZero(code))

\* child.on('close') of combined mode.
CombinedOnClose(r, code) ==
    IF ~r.settled
    THEN LET r1 == [r EXCEPT !.settled = TRUE]
             r2 == IF r1.writeFd # "null"
                   THEN [CloseSync(r1) EXCEPT !.writeFd = "null"]
                   ELSE r1
         IN  IF r2.readerEnded
             THEN Finalize(r2, code)
             ELSE [r2 EXCEPT !.finalizeTimer = TRUE, !.finalizeCode = code]
    ELSE r

\* The catch block of the delayed writer-open callback.
WriterCatch(r, err) ==
    IF ~r.settled
    THEN LET r1 == [r EXCEPT !.settled = TRUE]
             r2 == IF r1.writeFd # "null" THEN CloseSync(r1) ELSE r1
         IN  Reject(Unlink(ReaderDestroy(r2)), err)
    ELSE r

\* The catch block around the creation of the FIFO.
OuterCatch(r, err) ==
    IF ~r.settled
    THEN Reject(Unlink([r EXCEPT !.settled = TRUE]), err)
    ELSE r

\* openSync(fifoPath, 'w'): the flag 'w' creates the path when the node is
\* gone, so a node exists at fifoPath once the call has returned.
OpenSyncW(r) ==
    [r EXCEPT !.writeFd = "fd", !.fdState = "open", !.fifo = "exists"]

\* What spawn() can do: start the child, report the failure later through
\* the 'error' event, or throw.
SpawnOutcomes == {"ok", "enoent", "throw"}

Spawned(r, spawnOutcome) ==
    [r EXCEPT !.child = IF spawnOutcome = "ok" THEN "running" ELSE "spawnfail"]

\* The body of the setTimeout(..., 50) callback that opens the write end,
\* unlinks the FIFO, spawns the child and registers its listeners.
WriterOpen(r, openOk, spawnOutcome) ==
    LET r0 == [r EXCEPT !.writerTimer = FALSE] IN
    IF ~openOk THEN WriterCatch(r0, "open")
    ELSE LET r1 == Unlink(OpenSyncW(r0)) IN
         IF spawnOutcome = "throw" THEN WriterCatch(r1, "spawn")
         ELSE setupSignalHandlers(Spawned(r1, spawnOutcome))

\* An executor without the test for an empty argument vector.
executeCommandNoEmptyCheck(command, separateOutputs, mkfifoOk, spawnOutcome) ==
    LET r0 == [NoInv EXCEPT !.command = command,
                            !.separateOutputs = separateOutputs]
        parsed == parseCommand(command)
    IN  IF ~parsed.ok THEN Reject(r0, parsed.error)
        ELSE IF separateOutputs
        THEN IF spawnOutcome = "throw" THEN Reject(r0, "spawn")
             ELSE setupSignalHandlers(Spawned(r0, spawnOutcome))
        ELSE IF ~mkfifoOk THEN OuterCatch(r0, "mkfifo")
             ELSE [r0 EXCEPT !.fifo = "exists", !.reader = "open",
                             !.writerTimer = TRUE]

\* The promise executor of executeCommand, up to its return.
executeCommand(command, separateOutputs, mkfifoOk, spawnOutcome) ==
    LET r0 == [NoInv EXCEPT !.command = command,
                            !.separateOutputs = separateOutputs]
        parsed == parseCommand(command)
    IN  IF ~parsed.ok THEN Reject(r0, parsed.error)
        ELSE IF Len(parsed.args) = 0 THEN Reject(r0, "Command cannot be empty")
        ELSE IF separateOutputs
        THEN IF spawnOutcome = "throw" THEN Reject(r0, "spawn")
             ELSE setupSignalHandlers(Spawned(r0, spawnOutcome))
        ELSE IF ~mkfifoOk THEN OuterCatch(r0, "mkfifo")
             ELSE [r0 EXCEPT !.fifo = "exists", !.reader = "open",
                             !.writerTimer = TRUE]

\* The listeners of the child's 'close' event, in registration order.
EmitClose(r, code) ==
    IF r.separateOutputs
    THEN SeparateOnClose(cleanupSignalHandlers(r), code)
    ELSE CombinedOnClose(cleanupSignalHandlers(r), code)

\* The listeners of the child's 'error' event, in registration order.
EmitError(r) ==
    IF r.separateOutputs
    THEN SeparateOnError(cleanupSignalHandlers(r))
    ELSE CombinedOnError(cleanupSignalHandlers(r))

\* ------------------------------------------------- parseSuccessExitCodes
\* PartExitCodes with the loop over a range stopping one short of its end.
PartExitCodesExclusive(part) ==
    IF Includes(part, "-")
    THEN LET pieces == Split(part, "-")
             start == parseInt(Trim(pieces[1]))
             end == parseInt(Trim(pieces[2]))
         IN  IF start.nan \/ end.nan
             THEN [ok |-> FALSE, error |-> "Invalid range format", codes |-> {}]
             ELSE IF start.value < 0 \/ end.value < 0
             THEN [ok |-> FALSE,
                   error |-> "Invalid range: exit codes must be non-negative",
                   codes |-> {}]
             ELSE IF start.value > end.value
             THEN [ok |-> FALSE,
                   error |-> "Invalid range: start must be less than or equal to end",
                   codes |-> {}]
             ELSE [ok |-> TRUE, error |-> "none",
                   codes |-> start.value..(end.value - 1)]
    ELSE LET code == parseInt(part)
         IN  IF code.nan
             THEN [ok |-> FALSE, error |-> "Invalid exit code", codes |-> {}]
             ELSE IF code.value < 0
             THEN [ok |-> FALSE,
                   error |-> "Invalid exit code: exit codes must be non-negative",
                   codes |-> {}]
             ELSE [ok |-> TRUE, error |-> "none", codes |-> {code.value}]

\* One comma-separated part, already trimmed: the codes it adds to the set,
\* or the error it throws.
PartExitCodes(part) ==
    IF Includes(part, "-")
    THEN LET pieces == Split(part, "-")
             start == parseInt(Trim(pieces[1]))
             end == parseInt(Trim(pieces[2]))
         IN  IF start.nan \/ end.nan
             THEN [ok |-> FALSE, error |-> "Invalid range format", codes |-> {}]
             ELSE IF start.value < 0 \/ end.value < 0
             THEN [ok |-> FALSE,
                   error |-> "Invalid range: exit codes must be non-negative",
                   codes |-> {}]
             ELSE IF start.value > end.value
             THEN [ok |-> FALSE,
                   error |-> "Invalid range: start must be less than or equal to end",
                   codes |-> {}]
             ELSE [ok |-> TRUE, error |-> "none",
                   codes |-> start.value..end.value]
    ELSE LET code == parseInt(part)
         IN  IF code.nan
             THEN [ok |-> FALSE, error |-> "Invalid exit code", codes |-> {}]
             ELSE IF code.value < 0
             THEN [ok |-> FALSE,
                   error |-> "Invalid exit code: exit codes must be non-negative",
                   codes |-> {}]
             ELSE [ok |-> TRUE, error |-> "none", codes |-> {code.value}]

\* The for loop over the parts from part k on, exitCodes being the set
\* built so far: the first part that throws ends the loop.
RECURSIVE PartsFrom(_, _, _)
PartsFrom(parts, k, exitCodes) ==
    IF k > Len(parts) THEN [ok |-> TRUE, error |-> "none", codes |-> exitCodes]
    ELSE LET part == PartExitCodes(Trim(parts[k]))
         IN  IF ~part.ok THEN part
             ELSE PartsFrom(parts, k + 1, exitCodes \cup part.codes)

\* parseSuccessExitCodes(input): the set of accepted codes, or the error
\* it throws.
parseSuccessExitCodes(input) ==
    IF input = <<>> \/ Trim(input) = <<>>
    THEN [ok |-> TRUE, error |-> "none", codes |-> {0}]
    ELSE PartsFrom(Split(input, ","), 1, {})

\* The policy strings parseSuccessExitCodes is called on: every string of
\* at most MaxPolicyLen characters over digits, the two separators, a blank
\* and a letter.
PolicyAlphabet == {"0", "2", ",", "-", " ", "a"}

PolicyStrings == UNION {[1..n -> PolicyAlphabet] : n \in 0..MaxPolicyLen}

\* One call of parseSuccessExitCodes, before it returns or throws.
NewPolicy(input) ==
    [input |-> input, returned |-> FALSE,
     result |-> [ok |-> FALSE, error |-> "none", codes |-> {}]]

NoPolicy == [NewPolicy(<<>>) EXCEPT !.returned = TRUE]

\* ------------------------------------------------------------------- run()
\* Values of the environment variables INPUT_COMMAND,
\* INPUT_SUCCESS_EXIT_CODES and INPUT_SEPARATE_OUTPUTS.  INPUT_COMMAND is
\* drawn from Commands.
PolicyInputs ==
    { <<>>,
      <<"0", "-", "5", "0">>,
      <<"4", "2">>,
      <<"a", "b", "c">>,
      <<"5", "-", "2">> }

FlagInputs ==
    { <<>>,
      <<"t", "r", "u", "e">>,
      <<"T", "R", "U", "E">>,
      <<"1">>,
      <<"f", "a", "l", "s", "e">>,
      <<"0">> }

\* The runner sets GITHUB_OUTPUT to the path of the output file.
Environments ==
    [ command : Commands,
      success_exit_codes : PolicyInputs,
      separate_outputs : FlagInputs,
      GITHUB_OUTPUT : {TRUE} ]

\* run() before it has been called.
NoRun ==
    [ pc |-> "idle",               \* "idle", "awaiting" (at the await), "done"
      env |-> [command |-> <<>>, success_exit_codes |-> <<>>,
               separate_outputs |-> <<>>, GITHUB_OUTPUT |-> TRUE],
      \* locals of run()
      command |-> <<>>,
      successExitCodesInput |-> <<>>,
      separateOutputsInput |-> <<>>,
      successExitCodes |-> {},
      separateOutputs |-> FALSE,
      \* effects on the runner
      outputs |-> <<>>,            \* entries appended to the output file
      failures |-> <<>>,           \* messages of the ::error:: commands written
      exitCode |-> 0               \* process.exitCode
    ]

\* core.getInput(name, {required}): the value of the variable, trimmed;
\* throws when a required input is empty.
getInput(env, name, required) ==
    LET val == env[name]
    IN  IF required /\ val = <<>>
        THEN [ok |-> FALSE, error |-> "Input required and not supplied",
              value |-> <<>>]
        ELSE [ok |-> TRUE, error |-> "none", value |-> Trim(val)]

\* core.setOutput(name, value)
setOutput(h, name, value) ==
    IF ~h.env.GITHUB_OUTPUT THEN h
    ELSE [h EXCEPT !.outputs = Append(@, [name |-> name, value |-> value])]

\* core.setFailed(message)
setFailed(h, message) ==
    [h EXCEPT !.exitCode = 1, !.failures = Append(@, message)]

\* The message of an Error thrown by the core: its text, and no exit code
\* or captured output.
ErrorMessage(text) == [text |-> text, code |-> <<>>, output |-> <<>>]

\* `Command exited with code ${result.exitCode}: ${errorOutput}`
ExitMessage(exitCode, errorOutput) ==
    [text |-> "Command exited with code", code |-> toString(exitCode),
     output |-> errorOutput]

\* The catch block of run(); everything the core throws or rejects with is
\* an Error.
RunCatch(h, text) == setFailed([h EXCEPT !.pc = "done"], ErrorMessage(text))

\* separateOutputsInput.toLowerCase() === 'true' || separateOutputsInput === '1'
SeparateFlag(input) ==
    toLowerCase(input) = <<"t", "r", "u", "e">> \/ input = <<"1">>

\* An entry of run() that reports a rejected policy and carries on with the
\* default set.
RunEntryLenient(env) ==
    LET h0 == [NoRun EXCEPT !.env = env]
        command == getInput(env, "command", TRUE)
        successExitCodesInput == getInput(env, "success_exit_codes", FALSE).value
        separateOutputsInput == getInput(env, "separate_outputs", FALSE).value
        h1 == [h0 EXCEPT !.command = command.value,
                         !.successExitCodesInput = successExitCodesInput,
                         !.separateOutputsInput = separateOutputsInput]
        successExitCodes == parseSuccessExitCodes(successExitCodesInput)
        h2 == IF successExitCodes.ok THEN h1
              ELSE setFailed(h1, ErrorMessage(successExitCodes.error))
    IN  IF ~command.ok THEN RunCatch(h0, command.error)
        ELSE [h2 EXCEPT !.successExitCodes =
                            IF successExitCodes.ok THEN successExitCodes.codes
                            ELSE {0},
                        !.separateOutputs = SeparateFlag(separateOutputsInput),
                        !.pc = "awaiting"]

\* run() from its entry to the call of executeCommand: pc = "awaiting" when
\* the call is to be made, "done" when an input was rejected.
RunEntry(env) ==
    LET h0 == [NoRun EXCEPT !.env = env]
        command == getInput(env, "command", TRUE)
        successExitCodesInput == getInput(env, "success_exit_codes", FALSE).value
        separateOutputsInput == getInput(env, "separate_outputs", FALSE).value
        h1 == [h0 EXCEPT !.command = command.value,
                         !.successExitCodesInput = successExitCodesInput,
                         !.separateOutputsInput = separateOutputsInput]
        successExitCodes == parseSuccessExitCodes(successExitCodesInput)
    IN  IF ~command.ok THEN RunCatch(h0, command.error)
        ELSE IF ~successExitCodes.ok THEN RunCatch(h1, successExitCodes.error)
        ELSE [h1 EXCEPT !.successExitCodes = successExitCodes.codes,
                        !.separateOutputs = SeparateFlag(separateOutputsInput),
                        !.pc = "awaiting"]

\* separateOutputs ? result.stderr || result.stdout : result.combinedOutput
errorOutput(result, separateOutputs) ==
    IF separateOutputs
    THEN IF result.stderr # <<>> THEN result.stderr ELSE result.stdout
    ELSE result.combinedOutput

\* run() after the await, r being the settled invocation: the outputs and
\* the exit-code check for a result, the catch block for a rejection.
RunResume(h, r) ==
    IF r.outcome = "rejected" THEN RunCatch(h, r.error)
    ELSE LET result == r.result
             h1 == IF h.separateOutputs
                   THEN setOutput(setOutput(h, "stdout", result.stdout),
                                  "stderr", result.stderr)
                   ELSE setOutput(h, "combined_output", result.combinedOutput)
             h2 == setOutput(h1, "exit_code", toString(result.exitCode))
             h3 == [h2 EXCEPT !.pc = "done"]
         IN  IF result.exitCode \notin h.successExitCodes
             THEN setFailed(h3, ExitMessage(result.exitCode,
                                            errorOutput(result, h.separateOutputs)))
             ELSE h3

\* ---------------------------------------------------------------- FifoPipe
\* The period of the interval timer of waitForCompletion, in milliseconds.
CheckPeriod == 10

\* The timeouts waitForCompletion is called with.
Timeouts ==
    { t \in (0 - 1)..MaxTimeout : t = 0 - 1 \/ t = MaxTimeout \/ t % 5 \in {0, 1} }

NoWait == [state |-> "none", timeout |-> 0, waited |-> 0, checks |-> 0,
           interval |-> FALSE]

\* A FifoPipe after its constructor.  reader is the field ("null" or "set"),
\* stream the state of the stream it refers to; writeFd is the field, fdState
\* the state of the descriptor; node is the FIFO at fifoPath.  promise, value,
\* error and settleCalls belong to the promise open() returns, timer to its
\* 50 ms timer, wait to one waitForCompletion call.
NoPipe ==
    [ reader |-> "null", stream |-> "none",
      writeFd |-> "null", fdState |-> "none",
      combinedOutput |-> <<>>, processStdout |-> <<>>,
      readerEnded |-> FALSE,
      fifoUnlinked |-> FALSE, isOpen |-> FALSE,
      node |-> "none", fifoData |-> <<>>, written |-> 0,
      promise |-> "none", value |-> "none", error |-> "none",
      settleCalls |-> 0, timer |-> FALSE, hung |-> FALSE,
      closeSyncCalls |-> 0, unlinkCalls |-> 0,
      closeCalls |-> 0, closeWriteFdCalls |-> 0,
      wait |-> NoWait ]

\* resolve(this.writeFd) and reject(error) of the promise of open().
FifoResolve(p) ==
    [p EXCEPT !.settleCalls = @ + 1,
              !.promise = IF @ = "pending" THEN "resolved" ELSE @,
              !.value = IF p.promise = "pending" THEN p.writeFd ELSE @]

FifoReject(p, err) ==
    [p EXCEPT !.settleCalls = @ + 1,
              !.promise = IF @ = "pending" THEN "rejected" ELSE @,
              !.error = IF p.promise = "pending" THEN err ELSE @]

\* reader.destroy()
FifoReaderDestroy(p) ==
    [p EXCEPT !.stream = IF @ = "open" THEN "destroyed" ELSE @]

\* closeSync(this.writeFd)
FifoCloseSync(p) ==
    [p EXCEPT !.fdState = IF @ = "open" THEN "closed" ELSE @,
              !.closeSyncCalls = @ + 1]

\* unlinkSync(this.fifoPath): removes the node when it exists and throws
\* otherwise.
FifoUnlink(p) ==
    [p EXCEPT !.node = IF @ = "exists" THEN "unlinked" ELSE @,
              !.unlinkCalls = @ + 1]

\* cleanup(): the private method of the error paths of open().
cleanup(p) ==
    LET p1 == IF p.reader = "set"
              THEN [FifoReaderDestroy(p) EXCEPT !.reader = "null"]
              ELSE p
        p2 == IF p1.writeFd # "null"
              THEN [FifoCloseSync(p1) EXCEPT !.writeFd = "null"]
              ELSE p1
        p3 == IF ~p2.fifoUnlinked THEN FifoUnlink(p2) ELSE p2
    IN  [p3 EXCEPT !.isOpen = FALSE]

\* close() that leaves the writeFd field set after closing the descriptor.
closeKeepFd(p) ==
    LET p1 == IF p.writeFd # "null" THEN FifoCloseSync(p) ELSE p
        p2 == IF p1.reader = "set"
              THEN [FifoReaderDestroy(p1) EXCEPT !.reader = "null"]
              ELSE p1
    IN  [p2 EXCEPT !.isOpen = FALSE]

\* close()
close(p) ==
    LET p1 == IF p.writeFd # "null"
              THEN [FifoCloseSync(p) EXCEPT !.writeFd = "null"]
              ELSE p
        p2 == IF p1.reader = "set"
              THEN [FifoReaderDestroy(p1) EXCEPT !.reader = "null"]
              ELSE p1
    IN  [p2 EXCEPT !.isOpen = FALSE]

\* closeWriteFd() that marks the pipe as closed as well.
closeWriteFdAll(p) ==
    IF p.writeFd # "null"
    THEN [FifoCloseSync(p) EXCEPT !.writeFd = "null", !.isOpen = FALSE]
    ELSE p

\* closeWriteFd()
closeWriteFd(p) ==
    IF p.writeFd # "null"
    THEN [FifoCloseSync(p) EXCEPT !.writeFd = "null"]
    ELSE p

\* isOpened() and getOutput()
isOpened(p) == p.isOpen

getOutput(p) == p.combinedOutput

\* The handlers open() puts on the reader.  After 'error' the stream is
\* destroyed by the stream itself (autoDestroy); the field keeps referring
\* to it.
FifoReaderOnData(p) ==
    [p EXCEPT !.combinedOutput = @ \o Head(p.fifoData),
              !.processStdout = @ \o Head(p.fifoData),
              !.fifoData = Tail(@)]

FifoReaderOnEnd(p) == [p EXCEPT !.readerEnded = TRUE, !.stream = "ended"]

FifoReaderOnError(p) == FifoReject(FifoReaderDestroy(p), "reader")

\* open(): the executor of the promise it returns, up to the start of the
\* 50 ms timer.  mkdirSync and mkfifo succeed or throw.
open(p, mkdirOk, mkfifoOk) ==
    LET p0 == [p EXCEPT !.promise = "pending"]
    IN  IF ~mkdirOk THEN FifoReject(cleanup(p0), "mkdir")
        ELSE IF ~mkfifoOk THEN FifoReject(cleanup(p0), "mkfifo")
        ELSE [p0 EXCEPT !.node = "exists", !.reader = "set",
                        !.stream = "open", !.timer = TRUE]

\* The outcomes of openSync(fifoPath, 'w') in the timer: it returns a
\* descriptor, it throws, or it never returns.  Opening a FIFO for writing
\* waits for a reader, so it returns only while the read stream is alive,
\* and blocks the process for good when the stream is gone and the node is
\* still a FIFO.
OpenOutcomes == {"ok", "throw", "hang"}

OpenPossible(p, outcome) ==
    /\ outcome = "ok" => p.stream = "open"
    /\ outcome = "hang" => p.stream # "open" /\ p.node = "exists"

\* The timer callback that opens the writer and leaves the node in place.
FifoWriterTimerNoUnlink(p, outcome) ==
    LET p0 == [p EXCEPT !.timer = FALSE]
    IN  IF outcome = "hang" THEN [p0 EXCEPT !.hung = TRUE]
        ELSE IF outcome = "throw" THEN FifoReject(cleanup(p0), "openSync")
        ELSE FifoResolve([p0 EXCEPT !.writeFd = "fd", !.fdState = "open",
                                    !.fifoUnlinked = TRUE, !.isOpen = TRUE])

\* The callback of the 50 ms timer of open().  It does not look at the
\* promise: it runs the same after a reader error has rejected it.
FifoWriterTimer(p, outcome) ==
    LET p0 == [p EXCEPT !.timer = FALSE]
    IN  IF outcome = "hang" THEN [p0 EXCEPT !.hung = TRUE]
        ELSE IF outcome = "throw" THEN FifoReject(cleanup(p0), "openSync")
        ELSE LET p1 == [p0 EXCEPT !.writeFd = "fd", !.fdState = "open"]
                 p2 == [FifoUnlink(p1) EXCEPT !.fifoUnlinked = TRUE]
             IN  FifoResolve([p2 EXCEPT !.isOpen = TRUE])

\* waitForCompletion(timeout): the executor of the promise it returns.
waitForCompletion(p, timeout) ==
    IF p.readerEnded
    THEN [p EXCEPT !.wait = [NoWait EXCEPT !.state = "resolved",
                                           !.timeout = timeout]]
    ELSE [p EXCEPT !.wait = [NoWait EXCEPT !.state = "waiting",
                                           !.timeout = timeout,
                                           !.interval = TRUE]]

\* The interval callback that goes on while waited equals the timeout.
IntervalCheckStrict(p) ==
    LET waited == p.wait.waited + CheckPeriod
        w == [p.wait EXCEPT !.waited = waited, !.checks = @ + 1]
    IN  IF p.readerEnded \/ waited > p.wait.timeout
        THEN [p EXCEPT !.wait = [w EXCEPT !.interval = FALSE,
                                          !.state = "resolved"]]
        ELSE [p EXCEPT !.wait = w]

\* The callback of the interval timer of waitForCompletion.
IntervalCheck(p) ==
    LET waited == p.wait.waited + CheckPeriod
        w == [p.wait EXCEPT !.waited = waited, !.checks = @ + 1]
    IN  IF p.readerEnded
        THEN [p EXCEPT !.wait = [w EXCEPT !.interval = FALSE,
                                          !.state = "resolved"]]
        ELSE IF waited >= p.wait.timeout
        THEN [p EXCEPT !.wait = [w EXCEPT !.interval = FALSE,
                                          !.state = "resolved"]]
        ELSE [p EXCEPT !.wait = w]

\* ----------------------------------------------------------------- actions
Init ==
    /\ inv = [i \in Invocations |-> NoInv]
    /\ started = 0
    /\ received = <<>>
    /\ harness = NoRun
    /\ scan = NoScan
    /\ policyCall = NoPolicy
    /\ pipe = NoPipe

\* The caller makes its next executeCommand call, after the promise of the
\* previous one has settled (const result = await executeCommand(...)).
Start(i) ==
    /\ i = started + 1
    /\ i > 1 => inv[i - 1].outcome # "pending"
    /\ \E command \in Commands, separateOutputs \in BOOLEAN,
          mkfifoOk \in BOOLEAN, spawnOutcome \in SpawnOutcomes :
          inv' = [inv EXCEPT ![i] =
                    executeCommand(command, separateOutputs, mkfifoOk, spawnOutcome)]
    /\ started' = i
    /\ UNCHANGED <<received, harness, scan, policyCall, pipe>>

\* The 50 ms timer of combined mode fires.
WriterOpenTimer(i) ==
    /\ inv[i].writerTimer
    /\ \E openOk \in BOOLEAN, spawnOutcome \in SpawnOutcomes :
          inv' = [inv EXCEPT ![i] = WriterOpen(inv[i], openOk, spawnOutcome)]
    /\ UNCHANGED <<started, received, harness, scan, policyCall, pipe>>

RECURSIVE TotalWritten(_)
TotalWritten(n) ==
    IF n = 0 THEN 0 ELSE Len(inv[n].written) + TotalWritten(n - 1)

\* The child writes its next chunk to stdout or stderr.
ChildWrite(i) ==
    /\ inv[i].child = "running"
    /\ TotalWritten(MaxInvocations) < MaxWrites
    /\ inv[i].separateOutputs \/ inv[i].reader = "open"
    /\ \E stream \in {"out", "err"} :
          LET r == inv[i]
              chunk == Len(r.written) + 1
              r1 == [r EXCEPT !.written = Append(@, stream)]
          IN  inv' = [inv EXCEPT ![i] =
                 IF ~r.separateOutputs
                 THEN [r1 EXCEPT !.pipeFifo = Append(@, chunk)]
                 ELSE IF stream = "out"
                 THEN [r1 EXCEPT !.pipeOut = Append(@, chunk)]
                 ELSE [r1 EXCEPT !.pipeErr = Append(@, chunk)]]
    /\ UNCHANGED <<started, received, harness, scan, policyCall, pipe>>

\* The child terminates, with a numeric code or by a signal.
ChildExit(i) ==
    /\ inv[i].child = "running"
    /\ \E code \in ExitCodes \cup {NullCode} :
          inv' = [inv EXCEPT ![i].child = "exited", ![i].code = code]
    /\ UNCHANGED <<started, received, harness, scan, policyCall, pipe>>

\* A 'data' event of child.stdout.
StdoutData(i) ==
    /\ inv[i].pipeOut # <<>>
    /\ inv' = [inv EXCEPT ![i] =
                 StdoutOnData([inv[i] EXCEPT !.pipeOut = Tail(@)],
                              Head(inv[i].pipeOut))]
    /\ UNCHANGED <<started, received, harness, scan, policyCall, pipe>>

\* A 'data' event of child.stderr.
StderrData(i) ==
    /\ inv[i].pipeErr # <<>>
    /\ inv' = [inv EXCEPT ![i] =
                 StderrOnData([inv[i] EXCEPT !.pipeErr = Tail(@)],
                              Head(inv[i].pipeErr))]
    /\ UNCHANGED <<started, received, harness, scan, policyCall, pipe>>

\* A 'data' event of the FIFO reader.
ReaderData(i) ==
    /\ inv[i].reader = "open"
    /\ inv[i].pipeFifo # <<>>
    /\ inv' = [inv EXCEPT ![i] =
                 ReaderOnData([inv[i] EXCEPT !.pipeFifo = Tail(@)],
                              Head(inv[i].pipeFifo))]
    /\ UNCHANGED <<started, received, harness, scan, policyCall, pipe>>

\* The 'end' event of the FIFO reader: every write end is closed and the
\* pipe is drained.  No reachable state enables it, because every path that
\* closes the write descriptor destroys the reader in the same callback; it
\* is therefore not a disjunct of Next.
ReaderEnd(i) ==
    /\ inv[i].reader = "open"
    /\ inv[i].pipeFifo = <<>>
    /\ inv[i].fdState = "closed"
    /\ inv[i].child # "running"
    /\ inv' = [inv EXCEPT ![i] = ReaderOnEnd([inv[i] EXCEPT !.reader = "ended"])]
    /\ UNCHANGED <<started, received, harness, scan, policyCall, pipe>>

\* The 'error' event of the FIFO reader; the stream destroys itself after
\* an error.
ReaderError(i) ==
    /\ inv[i].reader = "open"
    /\ inv' = [inv EXCEPT ![i] = ReaderDestroy(ReaderOnError(inv[i]))]
    /\ UNCHANGED <<started, received, harness, scan, policyCall, pipe>>

\* The child's 'error' event after a failed spawn.
ChildError(i) ==
    /\ inv[i].child = "spawnfail"
    /\ ~inv[i].errorDelivered
    /\ inv' = [inv EXCEPT ![i] =
                 EmitError([inv[i] EXCEPT !.errorDelivered = TRUE])]
    /\ UNCHANGED <<started, received, harness, scan, policyCall, pipe>>

\* The child's 'close' event: after the exit, and in separate mode after
\* both stdio streams have delivered all their data; after a failed spawn
\* it follows the 'error' event and carries the negative errno.
ChildClose(i) ==
    /\ ~inv[i].closeDelivered
    /\ \/ inv[i].child = "exited"
       \/ inv[i].child = "spawnfail" /\ inv[i].errorDelivered
    /\ inv[i].pipeOut = <<>> /\ inv[i].pipeErr = <<>>
    /\ LET code == IF inv[i].child = "spawnfail" THEN SpawnErrCode
                   ELSE inv[i].code
       IN  inv' = [inv EXCEPT ![i] =
                     EmitClose([inv[i] EXCEPT !.closeDelivered = TRUE], code)]
    /\ UNCHANGED <<started, received, harness, scan, policyCall, pipe>>

\* The timer set by the combined close handler fires.  No reachable state
\* enables it, because cleanupSignalHandlers runs before the close handler
\* and sets settled; it is therefore not a disjunct of Next.
FinalizeTimer(i) ==
    /\ inv[i].finalizeTimer
    /\ inv' = [inv EXCEPT ![i] =
                 Finalize([inv[i] EXCEPT !.finalizeTimer = FALSE],
                          inv[i].finalizeCode)]
    /\ UNCHANGED <<started, received, harness, scan, policyCall, pipe>>

\* A receipt on which only the oldest registered handler runs.
ReceiveFirstOnly(signal) ==
    /\ Len(received) < MaxSignals
    /\ received' = Append(received, signal)
    /\ inv' = [i \in DOMAIN inv |->
                 IF /\ signal \in inv[i].listeners
                    /\ \A j \in DOMAIN inv : signal \in inv[j].listeners => i <= j
                 THEN SignalHandler(inv[i], signal)
                 ELSE inv[i]]
    /\ UNCHANGED <<started, harness, scan, policyCall, pipe>>

\* The process receives a signal: every handler registered for it runs.
Receive(signal) ==
    /\ Len(received) < MaxSignals
    /\ received' = Append(received, signal)
    /\ inv' = [i \in DOMAIN inv |->
                 IF signal \in inv[i].listeners
                 THEN SignalHandler(inv[i], signal)
                 ELSE inv[i]]
    /\ UNCHANGED <<started, harness, scan, policyCall, pipe>>

Next ==
    \/ \E i \in Invocations : Start(i)
    \/ \E i \in Invocations : WriterOpenTimer(i)
    \/ \E i \in Invocations : ChildWrite(i)
    \/ \E i \in Invocations : ChildExit(i)
    \/ \E i \in Invocations : StdoutData(i)
    \/ \E i \in Invocations : StderrData(i)
    \/ \E i \in Invocations : ReaderData(i)
    \/ \E i \in Invocations : ReaderError(i)
    \/ \E i \in Invocations : ChildError(i)
    \/ \E i \in Invocations : ChildClose(i)
    \/ \E signal \in signals : Receive(signal)

Spec == Init /\ [][Next]_vars

\* The engine while the process receives no signal: every callback of
\* executeCommand, the children's output included.
NextOutput ==
    \/ \E i \in Invocations : Start(i)
    \/ \E i \in Invocations : WriterOpenTimer(i)
    \/ \E i \in Invocations : ChildWrite(i)
    \/ \E i \in Invocations : ChildExit(i)
    \/ \E i \in Invocations : StdoutData(i)
    \/ \E i \in Invocations : StderrData(i)
    \/ \E i \in Invocations : ReaderData(i)
    \/ \E i \in Invocations : ReaderError(i)
    \/ \E i \in Invocations : ChildError(i)
    \/ \E i \in Invocations : ChildClose(i)

SpecOutput == Init /\ [][NextOutput]_vars

\* The engine with children that write no output: spawning, signal
\* forwarding, the child's events and the reader's errors.
NextSignals ==
    \/ \E i \in Invocations : Start(i)
    \/ \E i \in Invocations : WriterOpenTimer(i)
    \/ \E i \in Invocations : ChildExit(i)
    \/ \E i \in Invocations : ReaderError(i)
    \/ \E i \in Invocations : ChildError(i)
    \/ \E i \in Invocations : ChildClose(i)
    \/ \E signal \in signals : Receive(signal)

SpecSignals == Init /\ [][NextSignals]_vars

\* The action's entry point calls run() once: run() reads its inputs and,
\* unless one is rejected, calls executeCommand, whose executor runs before
\* run() is suspended at the await.
RunCall ==
    /\ harness.pc = "idle"
    /\ started = 0
    /\ \E env \in Environments, mkfifoOk \in BOOLEAN,
          spawnOutcome \in SpawnOutcomes :
          LET h == RunEntry(env) IN
          /\ harness' = h
          /\ IF h.pc = "awaiting"
             THEN /\ inv' = [inv EXCEPT ![1] =
                              executeCommand(h.command, h.separateOutputs,
                                             mkfifoOk, spawnOutcome)]
                  /\ started' = 1
             ELSE UNCHANGED <<inv, started>>
    /\ UNCHANGED <<received, scan, policyCall, pipe>>

\* The promise run() awaits has settled.
Awaited == harness.pc = "awaiting" /\ inv[1].outcome # "pending"

\* run() resumes after the await.
AwaitResume ==
    /\ Awaited
    /\ harness' = RunResume(harness, inv[1])
    /\ UNCHANGED <<inv, started, received, scan, policyCall, pipe>>

\* run() with its engine, while no signal arrives.  The continuation of the
\* await is a microtask: it runs as soon as the callback that settled the
\* promise has returned, before any other callback.
NextRun ==
    \/ RunCall
    \/ AwaitResume
    \/ ~Awaited /\ \E i \in Invocations : WriterOpenTimer(i)
    \/ ~Awaited /\ \E i \in Invocations : ChildWrite(i)
    \/ ~Awaited /\ \E i \in Invocations : ChildExit(i)
    \/ ~Awaited /\ \E i \in Invocations : StdoutData(i)
    \/ ~Awaited /\ \E i \in Invocations : StderrData(i)
    \/ ~Awaited /\ \E i \in Invocations : ReaderData(i)
    \/ ~Awaited /\ \E i \in Invocations : ReaderError(i)
    \/ ~Awaited /\ \E i \in Invocations : ChildError(i)
    \/ ~Awaited /\ \E i \in Invocations : ChildClose(i)

SpecRun == Init /\ [][NextRun]_vars

\* One iteration of the loop of parseCommand.
ScanChar ==
    /\ scan.i >= 1 /\ scan.i <= Len(scan.command)
    /\ scan' = [scan EXCEPT !.st = ParseStep(@, scan.command[scan.i]),
                            !.i = @ + 1]
    /\ UNCHANGED <<inv, started, received, harness, policyCall, pipe>>

\* The loop is over: parseCommand throws or returns.
ScanEnd ==
    /\ scan.i > Len(scan.command)
    /\ ~scan.returned
    /\ scan' = [scan EXCEPT !.returned = TRUE, !.result = ParseEnd(scan.st)]
    /\ UNCHANGED <<inv, started, received, harness, policyCall, pipe>>

\* parseCommand on every command string of at most MaxCommandLen characters.
InitParse ==
    /\ inv = [i \in Invocations |-> NoInv]
    /\ started = 0
    /\ received = <<>>
    /\ harness = NoRun
    /\ scan \in {NewScan(command) : command \in ScanCommands}
    /\ policyCall = NoPolicy
    /\ pipe = NoPipe

NextParse == ScanChar \/ ScanEnd

SpecParse == InitParse /\ [][NextParse]_vars

\* Invocations made without waiting for one another: executeCommand is
\* exported, and a caller may call it again while an earlier call is
\* pending.
Flights == 1..MaxConcurrent

StartConcurrent(i) ==
    /\ i = started + 1
    /\ \E separateOutputs \in BOOLEAN, spawnOutcome \in {"ok", "enoent"} :
          inv' = [inv EXCEPT ![i] =
                    executeCommand(<<"x">>, separateOutputs, TRUE, spawnOutcome)]
    /\ started' = i
    /\ UNCHANGED <<received, harness, scan, policyCall, pipe>>

InitConcurrent ==
    /\ inv = [i \in Flights |-> NoInv]
    /\ started = 0
    /\ received = <<>>
    /\ harness = NoRun
    /\ scan = NoScan
    /\ policyCall = NoPolicy
    /\ pipe = NoPipe

\* The signals the process receives while several invocations are in
\* flight: two of the six, which the handlers treat alike.
ConcurrentSignals == {"SIGINT", "SIGTERM"}

NextConcurrent ==
    \/ \E i \in Flights : StartConcurrent(i)
    \/ \E i \in Flights : WriterOpenTimer(i)
    \/ \E i \in Flights : ChildExit(i)
    \/ \E i \in Flights : ChildError(i)
    \/ \E i \in Flights : ChildClose(i)
    \/ \E signal \in ConcurrentSignals : Receive(signal)

SpecConcurrent == InitConcurrent /\ [][NextConcurrent]_vars

\* parseSuccessExitCodes returns or throws.
PolicyCall ==
    /\ ~policyCall.returned
    /\ policyCall' = [policyCall EXCEPT !.returned = TRUE,
                                !.result = parseSuccessExitCodes(policyCall.input)]
    /\ UNCHANGED <<inv, started, received, harness, scan, pipe>>

\* parseSuccessExitCodes on every policy string of at most MaxPolicyLen
\* characters.
InitPolicy ==
    /\ inv = [i \in Invocations |-> NoInv]
    /\ started = 0
    /\ received = <<>>
    /\ harness = NoRun
    /\ scan = NoScan
    /\ policyCall \in {NewPolicy(input) : input \in PolicyStrings}
    /\ pipe = NoPipe

NextPolicy == PolicyCall

SpecPolicy == InitPolicy /\ [][NextPolicy]_vars

\* The caller creates a FifoPipe and calls open().
PipeOpen ==
    /\ pipe.promise = "none"
    /\ \E mkdirOk \in BOOLEAN, mkfifoOk \in BOOLEAN :
           pipe' = open(pipe, mkdirOk, mkfifoOk)
    /\ UNCHANGED <<inv, started, received, harness, scan, policyCall>>

\* The 50 ms timer of open() fires.
PipeWriterTimer ==
    /\ pipe.timer /\ ~pipe.hung
    /\ \E outcome \in OpenOutcomes :
           /\ OpenPossible(pipe, outcome)
           /\ pipe' = FifoWriterTimer(pipe, outcome)
    /\ UNCHANGED <<inv, started, received, harness, scan, policyCall>>

\* The reader emits 'error'.
PipeReaderError ==
    /\ pipe.stream = "open" /\ ~pipe.hung
    /\ pipe' = FifoReaderOnError(pipe)
    /\ UNCHANGED <<inv, started, received, harness, scan, policyCall>>

\* A holder of the write descriptor writes a chunk into the pipe.
PipeWrite ==
    /\ pipe.fdState = "open" /\ ~pipe.hung
    /\ pipe.written < MaxPipeWrites
    /\ pipe' = [pipe EXCEPT !.fifoData = Append(@, <<pipe.written + 1>>),
                            !.written = @ + 1]
    /\ UNCHANGED <<inv, started, received, harness, scan, policyCall>>

\* The reader emits 'data' with the oldest chunk in the pipe.
PipeReaderData ==
    /\ pipe.stream = "open" /\ ~pipe.hung
    /\ pipe.fifoData # <<>>
    /\ pipe' = FifoReaderOnData(pipe)
    /\ UNCHANGED <<inv, started, received, harness, scan, policyCall>>

\* The reader emits 'end': the write end is closed and the pipe is drained.
PipeReaderEnd ==
    /\ pipe.stream = "open" /\ ~pipe.hung
    /\ pipe.fdState = "closed" /\ pipe.fifoData = <<>>
    /\ pipe' = FifoReaderOnEnd(pipe)
    /\ UNCHANGED <<inv, started, received, harness, scan, policyCall>>

\* The caller, past its await of open(), calls close().
PipeClose ==
    /\ pipe.promise \in {"resolved", "rejected"} /\ ~pipe.hung
    /\ pipe.closeCalls < MaxCalls
    /\ pipe' = [close(pipe) EXCEPT !.closeCalls = @ + 1]
    /\ UNCHANGED <<inv, started, received, harness, scan, policyCall>>

\* The caller, past its await of open(), calls closeWriteFd().
PipeCloseWriteFd ==
    /\ pipe.promise \in {"resolved", "rejected"} /\ ~pipe.hung
    /\ pipe.closeWriteFdCalls < MaxCalls
    /\ pipe' = [closeWriteFd(pipe) EXCEPT !.closeWriteFdCalls = @ + 1]
    /\ UNCHANGED <<inv, started, received, harness, scan, policyCall>>

\* The caller calls waitForCompletion on the pipe it has opened.
PipeWait ==
    /\ pipe.promise = "resolved" /\ ~pipe.hung
    /\ pipe.wait.state = "none"
    /\ \E timeout \in Timeouts : pipe' = waitForCompletion(pipe, timeout)
    /\ UNCHANGED <<inv, started, received, harness, scan, policyCall>>

\* The interval timer of waitForCompletion fires.
PipeCheck ==
    /\ pipe.wait.interval /\ ~pipe.hung
    /\ pipe' = IntervalCheck(pipe)
    /\ UNCHANGED <<inv, started, received, harness, scan, policyCall>>

NextFifo ==
    \/ PipeOpen
    \/ PipeWriterTimer
    \/ PipeReaderError
    \/ PipeWrite
    \/ PipeReaderData
    \/ PipeReaderEnd
    \/ PipeClose
    \/ PipeCloseWriteFd
    \/ PipeWait
    \/ PipeCheck

\* One FifoPipe and its caller.
SpecFifo == Init /\ [][NextFifo]_vars

\* The same with the interval timer firing as long as it is set.
SpecFifoFair == Init /\ [][NextFifo]_vars /\ WF_vars(PipeCheck)

\* ------------------------------------------------------------- properties
IsPrefix(a, b) == Len(a) <= Len(b) /\ a = SubSeq(b, 1, Len(a))

\* The chunks k..Len(w) of the write history w that went to stream s.
RECURSIVE ChunksFrom(_, _, _)
ChunksFrom(w, s, k) ==
    IF k > Len(w) THEN <<>>
    ELSE (IF w[k] = s THEN <<k>> ELSE <<>>) \o ChunksFrom(w, s, k + 1)

\* All chunks of the write history, in the order they were written.
AllChunks(w) == [k \in 1..Len(w) |-> k]

\* Number of handlers registered on process for a signal.
HandlerCount(signal) ==
    Cardinality({i \in Invocations : signal \in inv[i].listeners})

\* C1: for every invocation, resolve and reject are called at most once in
\* total, whatever the order of the close, error, reader-error and timer
\* callbacks.
C1_SettledAtMostOnce ==
    \A i \in Invocations : inv[i].settleCalls <= 1

\* C1 witness: a combined invocation that saw a reader error, the child's
\* error event and its close event, and was settled exactly once.
C1_Witness ==
    \E i \in Invocations :
        /\ ~inv[i].separateOutputs
        /\ inv[i].error = "reader"
        /\ inv[i].errorDelivered /\ inv[i].closeDelivered
        /\ inv[i].settleCalls = 1

\* C2 (as claimed): once the close event of a child that ran and exited has
\* been processed and no finalize timer is pending, the promise is no longer
\* pending.
C2_SettlesAfterClose ==
    \A i \in Invocations :
        (/\ inv[i].child = "exited"
         /\ inv[i].closeDelivered
         /\ ~inv[i].finalizeTimer)
        => inv[i].outcome # "pending"

\* C3 (as claimed): a result delivered for a child that exited with numeric
\* code c has exitCode = c.
C3_ExitCodeReported ==
    \A i \in Invocations :
        /\ inv[i].outcome = "resolved"
        /\ inv[i].child = "exited"
        /\ inv[i].code # NullCode
        => inv[i].result.exitCode = inv[i].code

\* C4 (as claimed): once the child's error event has been processed the
\* promise is rejected, never resolved and never left pending.
C4_SpawnErrorRejects ==
    \A i \in Invocations :
        inv[i].errorDelivered => inv[i].outcome = "rejected"

\* C5: a step in which the process receives a signal appends exactly that
\* signal to the kill calls of every running child, and the kill calls of a
\* child change in no other way.
C5_ForwardedExactlyOnce ==
    [][\A i \in Invocations :
          /\ (received' # received /\ inv[i].child = "running")
                => inv'[i].kills = Append(inv[i].kills, received'[Len(received')])
          /\ inv'[i].kills # inv[i].kills
                => /\ received' # received
                   /\ inv'[i].kills = Append(inv[i].kills, received'[Len(received')])
      ]_vars

\* C5 witness: a running child that has been sent the received signal.
C5_Witness ==
    \E i \in Invocations :
        /\ inv[i].child = "running"
        /\ inv[i].kills # <<>>
        /\ inv[i].kills = received

\* C6: the handlers of an invocation are registered all six or not at all;
\* once the child's close or error event has been processed none is
\* registered, none is registered again, and no signal is forwarded.
C6_HandlersRemovedTogether ==
    [][\A i \in Invocations :
          /\ inv'[i].listeners \in {{}, signals}
          /\ (inv'[i].errorDelivered \/ inv'[i].closeDelivered)
                => inv'[i].listeners = {}
          /\ (inv[i].errorDelivered \/ inv[i].closeDelivered)
                => inv'[i].kills = inv[i].kills
      ]_vars

\* C6 witness: the first invocation, in separate mode, has processed the
\* error event and then the close event, a signal has been received and
\* none was forwarded.
C6_Witness ==
    /\ inv[1].separateOutputs
    /\ inv[1].errorDelivered /\ inv[1].closeDelivered
    /\ inv[1].listeners = {}
    /\ received # <<>>
    /\ inv[1].kills = <<>>

\* C7 (as claimed): when every invocation made so far has settled, no
\* handler is registered for any of the six signals.
C7_NoHandlerLeak ==
    (started >= 1 /\ \A i \in 1..started : inv[i].outcome # "pending")
        => \A signal \in signals : HandlerCount(signal) = 0

\* C8: in combined mode no node exists at fifoPath once the invocation has
\* settled or the child's close or error event has been processed.
C8_FifoGoneWhenSettled ==
    \A i \in Invocations :
        (/\ ~inv[i].separateOutputs
         /\ \/ inv[i].outcome # "pending"
            \/ inv[i].closeDelivered
            \/ inv[i].errorDelivered)
        => inv[i].fifo # "exists"

\* C8 witness: a combined invocation rejected by a reader error before the
\* writer was opened, whose FIFO node has been removed.
C8_Witness ==
    \E i \in Invocations :
        /\ ~inv[i].separateOutputs
        /\ inv[i].outcome = "rejected" /\ inv[i].error = "reader"
        /\ inv[i].fdState = "none"
        /\ inv[i].fifo = "unlinked"

C10_SeparateStreams ==
    \A i \in Invocations :
        inv[i].separateOutputs
            => /\ IsPrefix(inv[i].stdout, ChunksFrom(inv[i].written, "out", 1))
               /\ IsPrefix(inv[i].stderr, ChunksFrom(inv[i].written, "err", 1))
               /\ inv[i].combinedOutput = <<>>
               /\ (inv[i].outcome = "resolved" /\ inv[i].child = "exited")
                     => /\ inv[i].result.stdout = ChunksFrom(inv[i].written, "out", 1)
                        /\ inv[i].result.stderr = ChunksFrom(inv[i].written, "err", 1)
                        /\ inv[i].result.combinedOutput = <<>>

\* C10 witness: A to stdout, B to stderr, C to stdout; the result has A and
\* C in stdout and B in stderr.
C10_Witness ==
    \E i \in Invocations :
        /\ inv[i].separateOutputs
        /\ inv[i].outcome = "resolved"
        /\ inv[i].written = <<"out", "err", "out">>
        /\ inv[i].result.stdout = <<1, 3>>
        /\ inv[i].result.stderr = <<2>>

C12_ResultAfterDrain ==
    \A i \in Invocations :
        (/\ ~inv[i].separateOutputs
         /\ inv[i].written # <<>>
         /\ inv[i].child = "exited"
         /\ inv[i].closeDelivered
         /\ ~inv[i].finalizeTimer)
        => /\ inv[i].outcome = "resolved"
           /\ inv[i].readerEnded
           /\ inv[i].result.combinedOutput = AllChunks(inv[i].written)

\* C13 (as claimed): in both modes, once the close event of a child that was
\* terminated by a signal (code null) has been handled and no finalize timer
\* is pending, a result with exitCode 0 has been delivered.
C13_SignalExitIsZero ==
    \A i \in Invocations :
        (/\ inv[i].child = "exited" /\ inv[i].code = NullCode
         /\ inv[i].closeDelivered
         /\ ~inv[i].finalizeTimer)
        => /\ inv[i].outcome = "resolved"
           /\ inv[i].result.exitCode = 0

\* The names of the outputs emitted, in order.
OutputNames(outputs) == [k \in 1..Len(outputs) |-> outputs[k].name]

\* The flag is 'true' in any letter case, or '1'.
SaysTrue(flag) ==
    \/ /\ Len(flag) = 4
       /\ flag[1] \in {"t", "T"} /\ flag[2] \in {"r", "R"}
       /\ flag[3] \in {"u", "U"} /\ flag[4] \in {"e", "E"}
    \/ flag = <<"1">>

\* The output shape of a flag value.
Shape(flag) ==
    IF SaysTrue(flag) THEN <<"stdout", "stderr", "exit_code">>
    ELSE <<"combined_output", "exit_code">>

\* The child of the run has exited, its close event has been handled, no
\* timer or continuation is pending and the core reported no error.
RunCompleted ==
    /\ started = 1
    /\ inv[1].child = "exited"
    /\ inv[1].closeDelivered
    /\ ~inv[1].finalizeTimer
    /\ inv[1].outcome # "rejected"
    /\ ~Awaited

\* C14 (as claimed): the outputs emitted by a run are never a mix of the two
\* shapes, and a run whose child has exited and been closed has emitted the
\* shape of its flag: stdout, stderr, exit_code for 'true' (any case) or '1',
\* combined_output, exit_code for every other value.
C14_OneShapePerRun ==
    /\ OutputNames(harness.outputs) \in {<<>>, Shape(harness.env.separate_outputs)}
    /\ RunCompleted
          => /\ harness.pc = "done"
             /\ OutputNames(harness.outputs) = Shape(harness.env.separate_outputs)

\* C15 (as claimed): when run() has handled a delivered result, it has
\* signalled failure if and only if the result's exitCode is outside the
\* parsed set; for a child that exited 42 it signals no failure under the
\* policy '0-50' and a failure naming 42 under the default policy.
C15_FailureIffNotAccepted ==
    (harness.pc = "done" /\ started = 1 /\ inv[1].outcome = "resolved")
        => /\ harness.failures # <<>>
                <=> inv[1].result.exitCode \notin harness.successExitCodes
           /\ (inv[1].child = "exited" /\ inv[1].code = 42)
                => /\ harness.env.success_exit_codes = <<"0", "-", "5", "0">>
                        => harness.failures = <<>>
                   /\ harness.env.success_exit_codes = <<>>
                        => /\ Len(harness.failures) = 1
                           /\ harness.failures[1].code = <<"4", "2">>

\* C16 (as claimed): a run whose child exited with a numeric code outside
\* the accepted set has emitted the outputs of its mode, exit_code being
\* that code, and has signalled one failure whose message holds the code and
\* the captured output: combinedOutput in combined mode, in separate mode
\* stderr, or stdout when stderr is empty.
C16_FailureCarriesOutput ==
    (/\ RunCompleted
     /\ inv[1].code # NullCode
     /\ inv[1].code \notin harness.successExitCodes)
        => /\ harness.pc = "done"
           /\ OutputNames(harness.outputs) = Shape(harness.env.separate_outputs)
           /\ harness.outputs[Len(harness.outputs)].value = toString(inv[1].code)
           /\ Len(harness.failures) = 1
           /\ harness.failures[1].code = toString(inv[1].code)
           /\ harness.failures[1].output =
                 (IF ~inv[1].separateOutputs THEN inv[1].combinedOutput
                  ELSE IF inv[1].stderr # <<>> THEN inv[1].stderr
                  ELSE inv[1].stdout)

\* A core error has occurred in the run: an input was rejected, the promise
\* of executeCommand was rejected, or the child's error event was handled.
CoreError ==
    /\ harness.pc # "idle"
    /\ \/ started = 0
       \/ inv[1].outcome = "rejected"
       \/ inv[1].errorDelivered

\* C17 (as claimed): after a core error, once no continuation is pending,
\* run() has completed, has marked the run failed exactly once with the
\* error's message, and has emitted no output.
C17_CoreErrorFailsRun ==
    (CoreError /\ ~Awaited)
        => /\ harness.pc = "done"
           /\ Len(harness.failures) = 1
           /\ harness.failures[1].code = <<>>
           /\ inv[1].outcome = "rejected"
                 => harness.failures[1].text = inv[1].error
           /\ harness.outputs = <<>>

\* Number of backslashes at the end of a string.
RECURSIVE TrailingBackslashes(_)
TrailingBackslashes(s) ==
    IF s # <<>> /\ s[Len(s)] = "\\"
    THEN 1 + TrailingBackslashes(SubSeq(s, 1, Len(s) - 1))
    ELSE 0

\* C18: when parseCommand has returned or thrown, it has thrown 'incomplete
\* escape sequence' exactly when the scan ended with a pending escape (the
\* string ends with an odd number of backslashes), 'unclosed quote' exactly
\* when the scan ended inside a quote with no pending escape, and it has
\* returned otherwise; with both a pending escape and an open quote the
\* error is the incomplete escape.
C18_EndOfScanErrors ==
    scan.returned
        => /\ scan.result.error = "incomplete escape sequence"
                <=> scan.st.escaped
           /\ scan.result.error = "unclosed quote"
                <=> (~scan.st.escaped /\ scan.st.inQuotes # "")
           /\ scan.result.ok
                <=> (~scan.st.escaped /\ scan.st.inQuotes = "")
           /\ scan.result.ok <=> scan.result.error = "none"
           /\ scan.st.escaped <=> TrailingBackslashes(scan.command) % 2 = 1
           /\ scan.result = parseCommand(scan.command)

\* C18 witness: a scan that ended inside a quote with a pending escape and
\* threw the incomplete-escape error.
C18_Witness ==
    /\ scan.returned
    /\ scan.st.escaped /\ scan.st.inQuotes # ""
    /\ scan.result.error = "incomplete escape sequence"

\* Every character of the command is whitespace.
IsBlank(command) == \A k \in 1..Len(command) : command[k] \in Whitespace

\* C19: in both modes an invocation is rejected with 'Command cannot be
\* empty' exactly when parseCommand returns an empty vector for its command;
\* for the empty string and every whitespace-only string parseCommand
\* returns the empty vector without failing and the invocation is rejected
\* with that error.
C19_EmptyCommandRejected ==
    \A i \in Invocations :
        i <= started
            => LET parsed == parseCommand(inv[i].command)
               IN  /\ (inv[i].outcome = "rejected"
                          /\ inv[i].error = "Command cannot be empty")
                        <=> (parsed.ok /\ parsed.args = <<>>)
                   /\ IsBlank(inv[i].command)
                        => /\ parsed.ok /\ parsed.args = <<>>
                           /\ inv[i].outcome = "rejected"
                           /\ inv[i].error = "Command cannot be empty"

\* C19 witness: a separate-mode invocation with a command of a space and a
\* tab, rejected with the empty-command error.
C19_Witness ==
    \E i \in Invocations :
        /\ i <= started
        /\ inv[i].separateOutputs
        /\ inv[i].command = <<" ", "\t">>
        /\ inv[i].outcome = "rejected"
        /\ inv[i].error = "Command cannot be empty"

\* The inputs of the run make the policy parser or the tokenizer fail, or
\* give a command with zero arguments (a missing command included).
EarlyError ==
    /\ harness.pc # "idle"
    /\ LET command == Trim(harness.env.command)
           policy == Trim(harness.env.success_exit_codes)
       IN  \/ harness.env.command = <<>>
           \/ ~parseSuccessExitCodes(policy).ok
           \/ ~parseCommand(command).ok
           \/ parseCommand(command).args = <<>>

\* C20: in a run whose policy or command is rejected in one of these ways,
\* no process is spawned, no FIFO node is created, no reader or descriptor
\* is opened, no timer is set and no signal handler is registered, at any
\* moment; and once the continuation of the await has run, the run has
\* been marked failed once and has emitted no output.
C20_EarlyErrorNoSideEffect ==
    EarlyError
        => /\ \A i \in Invocations :
                 /\ inv[i].child = "none"
                 /\ inv[i].fifo = "none"
                 /\ inv[i].reader = "none"
                 /\ inv[i].fdState = "none"
                 /\ ~inv[i].writerTimer
                 /\ inv[i].listeners = {}
                 /\ inv[i].signalHandlers = {}
           /\ ~Awaited
                 => /\ harness.pc = "done"
                    /\ Len(harness.failures) = 1
                    /\ harness.exitCode = 1
                    /\ harness.outputs = <<>>

\* C20 witness: a run with an accepted command and the policy 'abc': marked
\* failed with the parser's error, executeCommand never called.
C20_Witness ==
    /\ harness.pc = "done"
    /\ harness.env.command = <<"x">>
    /\ harness.env.success_exit_codes = <<"a", "b", "c">>
    /\ harness.failures = <<ErrorMessage("Invalid exit code")>>
    /\ started = 0
    /\ inv[1].child = "none" /\ inv[1].fifo = "none" /\ inv[1].listeners = {}

\* The policy grammar, read off the policy string itself.  A numeral is a
\* non-empty string of decimal digits; its value is taken from the right.
IsNumeral(s) == Len(s) > 0 /\ \A k \in 1..Len(s) : IsDigit(s[k])

RECURSIVE NumeralValue(_)
NumeralValue(s) ==
    IF s = <<>> THEN 0
    ELSE 10 * NumeralValue(SubSeq(s, 1, Len(s) - 1)) + DigitValue(s[Len(s)])

\* The comma-free stretches of the input between its commas and its ends.
Segments(input) ==
    { SubSeq(input, i, j) : <<i, j>> \in
        { <<i, j>> \in (1..Len(input) + 1) \X (0..Len(input)) :
            /\ j >= i - 1
            /\ i = 1 \/ input[i - 1] = ","
            /\ j = Len(input) \/ input[j + 1] = ","
            /\ \A k \in i..j : input[k] # "," } }

\* The hyphens of a part that split it into two numerals, blanks around the
\* numerals aside.
RangeHyphens(part) ==
    { k \in 1..Len(part) :
        /\ part[k] = "-"
        /\ IsNumeral(Trim(SubSeq(part, 1, k - 1)))
        /\ IsNumeral(Trim(SubSeq(part, k + 1, Len(part)))) }

RangeStart(part, k) == NumeralValue(Trim(SubSeq(part, 1, k - 1)))

RangeEnd(part, k) == NumeralValue(Trim(SubSeq(part, k + 1, Len(part))))

\* A well-formed part: a numeral, or two numerals joined by one hyphen with
\* start <= end.
WellFormedPart(part) ==
    \/ IsNumeral(part)
    \/ \E k \in RangeHyphens(part) : RangeStart(part, k) <= RangeEnd(part, k)

PartDenotes(part) ==
    IF IsNumeral(part) THEN {NumeralValue(part)}
    ELSE UNION { RangeStart(part, k)..RangeEnd(part, k) : k \in RangeHyphens(part) }

WellFormed(input) ==
    /\ ~IsBlank(input)
    /\ \A segment \in Segments(input) : WellFormedPart(Trim(segment))

Denoted(input) ==
    IF IsBlank(input) THEN {0}
    ELSE UNION { PartDenotes(Trim(segment)) : segment \in Segments(input) }

\* C21: for every well-formed policy string parseSuccessExitCodes returns
\* exactly the set the string denotes: {0} for an empty or all-whitespace
\* string, otherwise the union over the comma-separated parts of the single
\* integer or of every integer of the inclusive range, blanks around parts
\* and numbers ignored; every member is a non-negative integer.
C21_PolicyDenotation ==
    (policyCall.returned /\ (IsBlank(policyCall.input) \/ WellFormed(policyCall.input)))
        => /\ policyCall.result.ok
           /\ policyCall.result.codes = Denoted(policyCall.input)
           /\ policyCall.result.codes \subseteq Nat
           /\ IsBlank(policyCall.input) => policyCall.result.codes = {0}

\* '0, 0-2' has returned {0, 1, 2}.
C21_Witness ==
    /\ policyCall.returned
    /\ policyCall.input = <<"0", ",", "0", "-", "2">>
    /\ WellFormed(policyCall.input)
    /\ policyCall.result.ok
    /\ policyCall.result.codes = {0, 1, 2}

\* C22: parseSuccessExitCodes throws on every non-blank input with a
\* malformed part: a part that after trimming is neither a numeral nor two
\* numerals joined by one hyphen with start <= end.
C22_MalformedRejected ==
    (policyCall.returned /\ ~IsBlank(policyCall.input) /\ ~WellFormed(policyCall.input))
        => ~policyCall.result.ok

\* args.join(' '): the arguments with one space between neighbours.
RECURSIVE JoinArgs(_)
JoinArgs(args) ==
    IF args = <<>> THEN <<>>
    ELSE IF Len(args) = 1 THEN args[1]
    ELSE args[1] \o <<" ">> \o JoinArgs(Tail(args))

\* No argument holds one of the characters.
ArgsWithout(args, chars) ==
    \A n \in 1..Len(args) : \A k \in 1..Len(args[n]) : args[n][k] \notin chars

\* C23 as stated: for every well-formed command whose arguments hold no
\* whitespace and no quote character, tokenizing the arguments re-joined
\* with single spaces yields the same argument vector.
C23_RetokenizeNoQuotes ==
    (scan.returned /\ scan.result.ok
        /\ ArgsWithout(scan.result.args, Whitespace \cup {"\"", "'"}))
        => parseCommand(JoinArgs(scan.result.args)) = scan.result

\* C23 amended: the same, for arguments that hold no backslash either.
C23_RetokenizePlain ==
    (scan.returned /\ scan.result.ok
        /\ ArgsWithout(scan.result.args, Whitespace \cup {"\"", "'", "\\"}))
        => parseCommand(JoinArgs(scan.result.args)) = scan.result

\* 'a' a was tokenized to [a, a]; the re-joined string a a is not the
\* command, and tokenizes to [a, a] again.
C23_Witness ==
    /\ scan.returned
    /\ scan.command = <<"'", "a", "'", " ", "a">>
    /\ scan.result.ok
    /\ scan.result.args = << <<"a">>, <<"a">> >>
    /\ JoinArgs(scan.result.args) = <<"a", " ", "a">>
    /\ parseCommand(JoinArgs(scan.result.args)).args = scan.result.args

\* C24: at the step at which the promise of FifoPipe.open() resolves, it
\* carries the write descriptor, the write descriptor and the read stream
\* are open, isOpened() is true, and the node, which existed while the
\* write end was being opened, is gone from its path.
C24_OpenResolved ==
    [][(pipe.promise # "resolved" /\ pipe'.promise = "resolved")
        => /\ pipe'.value = "fd"
           /\ pipe'.writeFd = "fd" /\ pipe'.fdState = "open"
           /\ pipe'.reader = "set" /\ pipe'.stream = "open"
           /\ isOpened(pipe')
           /\ pipe.fdState = "none" /\ pipe.node = "exists"
           /\ pipe'.node = "unlinked"]_vars

\* open() has resolved and nothing has been closed yet.
C24_Witness ==
    /\ pipe.promise = "resolved"
    /\ pipe.value = "fd"
    /\ pipe.fdState = "open" /\ pipe.stream = "open"
    /\ pipe.node = "unlinked"
    /\ isOpened(pipe)
    /\ pipe.closeCalls = 0

\* C25 as stated: at the step at which open() rejects, no descriptor is
\* left open (the read stream is destroyed, the write descriptor closed)
\* and no node is left at the path.
C25_RejectCleansUp ==
    [][(pipe.promise # "rejected" /\ pipe'.promise = "rejected")
        => /\ pipe'.stream # "open"
           /\ pipe'.fdState # "open"
           /\ pipe'.node # "exists"]_vars

\* ceil(timeout / CheckPeriod), at least 1.
MaxChecks(timeout) ==
    IF timeout <= CheckPeriod THEN 1
    ELSE (timeout + CheckPeriod - 1) \div CheckPeriod

\* C26: waitForCompletion(timeout) always resolves: with no check when the
\* reader had already ended, otherwise at the first check at which the
\* reader has ended or the accumulated wait has reached the timeout, which
\* is after at most max(1, ceil(timeout / 10)) checks; its interval timer
\* is set exactly while it waits.
C26_WaitResolves ==
    /\ [](/\ pipe.wait.checks <= MaxChecks(pipe.wait.timeout)
          /\ pipe.wait.waited = pipe.wait.checks * CheckPeriod
          /\ pipe.wait.interval <=> pipe.wait.state = "waiting"
          /\ (pipe.wait.state = "waiting" /\ pipe.wait.checks > 0)
                => pipe.wait.waited < pipe.wait.timeout
          /\ (pipe.wait.state = "resolved" /\ pipe.wait.checks > 0)
                => \/ pipe.readerEnded
                   \/ pipe.wait.waited >= pipe.wait.timeout
          /\ (pipe.wait.state = "resolved" /\ pipe.wait.checks = 0)
                => pipe.readerEnded)
    /\ [][(pipe.wait.state = "waiting" /\ pipe'.wait # pipe.wait)
            => /\ pipe'.wait.checks = pipe.wait.checks + 1
               /\ pipe'.wait.state = "resolved"
                    <=> \/ pipe.readerEnded
                        \/ pipe'.wait.waited >= pipe.wait.timeout]_vars
    /\ (pipe.wait.state = "waiting") ~> (pipe.wait.state = "resolved")

\* A wait of MaxTimeout ms on a reader that never ended was resolved by
\* the last check the timeout allows, after more than one check.
C26_Witness ==
    /\ pipe.wait.state = "resolved"
    /\ pipe.wait.timeout = MaxTimeout
    /\ pipe.wait.checks = MaxChecks(MaxTimeout)
    /\ pipe.wait.checks > 1
    /\ ~pipe.readerEnded
    /\ ~pipe.wait.interval

\* C28: isOpened() is true exactly from the step at which open() resolves
\* until the first call of close(): closeWriteFd() leaves it as it is, and
\* it is never true for a pipe whose open() rejected.
C28_IsOpenedWindow ==
    isOpened(pipe) <=> (pipe.promise = "resolved" /\ pipe.closeCalls = 0)

\* closeWriteFd() has closed the descriptor of an open pipe, which still
\* reports open.
C28_Witness ==
    /\ pipe.promise = "resolved"
    /\ pipe.closeWriteFdCalls = 1
    /\ pipe.fdState = "closed"
    /\ pipe.closeCalls = 0
    /\ isOpened(pipe)

\* C27 as stated: in combined mode, at the step that settles an invocation
\* whose write descriptor has been opened, the descriptor is closed and
\* closeSync has been called on it exactly once; it is never called twice.
C27_DescriptorClosedOnSettle ==
    [][\A i \in Invocations :
        /\ (~inv[i].separateOutputs /\ ~inv[i].settled /\ inv'[i].settled
                /\ inv'[i].fdState # "none")
              => inv'[i].fdState = "closed" /\ inv'[i].closeSyncCalls = 1
        /\ inv'[i].closeSyncCalls <= 1]_vars

\* C29 as stated: in separate mode, at the step that resolves an invocation
\* the child has exited and both of its streams are finished (nothing is
\* left in either pipe), and once the result is delivered the captured
\* stdout and stderr do not change any more.
C29_ResultAfterExitAndStreams ==
    [][\A i \in Invocations :
        /\ (inv[i].separateOutputs /\ inv[i].outcome = "pending"
                /\ inv'[i].outcome = "resolved")
              => /\ inv'[i].child = "exited"
                 /\ inv'[i].closeDelivered
                 /\ inv'[i].pipeOut = <<>> /\ inv'[i].pipeErr = <<>>
        /\ (inv[i].separateOutputs /\ inv[i].outcome = "resolved")
              => /\ inv'[i].stdout = inv[i].stdout
                 /\ inv'[i].stderr = inv[i].stderr]_vars

\* C30 as stated: in combined mode the write end is opened only while the
\* read end is open and the node is in place, and the child is spawned only
\* with the write descriptor open, the read end open and the node gone.
C30_ChannelOrder ==
    [][\A i \in Invocations :
        ~inv'[i].separateOutputs =>
          /\ (inv[i].fdState = "none" /\ inv'[i].fdState # "none")
                => inv[i].reader = "open" /\ inv[i].fifo = "exists"
          /\ (inv[i].child = "none" /\ inv'[i].child # "none")
                => /\ inv[i].reader = "open"
                   /\ inv'[i].fdState = "open"
                   /\ inv'[i].fifo = "unlinked"]_vars

\* C31 as stated: in a combined-mode invocation, once the write end has
\* been opened and the node unlinked after it, unlinkSync is not called on
\* the path again.
C31_UnlinkedOnce ==
    [][\A i \in Invocations :
        (~inv[i].separateOutputs /\ inv[i].fdState # "none"
            /\ inv[i].unlinkCalls >= 1)
          => inv'[i].unlinkCalls = inv[i].unlinkCalls]_vars

\* C32 as stated: in combined mode the step that handles the child's
\* 'close' event closes the write descriptor, and closes the reader in that
\* same step only if the reader has already seen end-of-stream; otherwise
\* the reader stays open for the wait that follows.
C32_ShutdownOrder ==
    [][\A i \in Invocations :
        (~inv[i].separateOutputs /\ ~inv[i].closeDelivered
            /\ inv'[i].closeDelivered /\ inv[i].reader = "open")
          => /\ inv'[i].fdState = "closed"
             /\ inv'[i].reader = "destroyed" => inv'[i].readerEnded]_vars

\* C33: at every moment what an invocation has written to the caller's
\* streams equals what it has captured: in separate mode process.stdout
\* holds the stdout buffer and process.stderr the stderr buffer, in
\* combined mode process.stdout holds combinedOutput and nothing went to
\* process.stderr.
C33_MirrorEqualsCapture ==
    \A i \in Invocations :
        IF inv[i].separateOutputs
        THEN /\ inv[i].processStdout = inv[i].stdout
             /\ inv[i].processStderr = inv[i].stderr
        ELSE /\ inv[i].processStdout = inv[i].combinedOutput
             /\ inv[i].processStderr = <<>>
             /\ inv[i].stdout = <<>> /\ inv[i].stderr = <<>>

\* A separate-mode invocation has captured and mirrored a chunk of each
\* stream.
C33_Witness ==
    \E i \in Invocations :
        /\ inv[i].separateOutputs
        /\ inv[i].stdout # <<>> /\ inv[i].stderr # <<>>
        /\ inv[i].processStdout = inv[i].stdout
        /\ inv[i].processStderr = inv[i].stderr

\* C34: a step in which the process receives a signal changes nothing of an
\* invocation but the list of signals sent to its child, to which it adds
\* that signal or nothing: it settles nothing, removes no handler, closes no
\* descriptor and leaves the captured output alone.  Whatever was forwarded
\* before, the step that delivers the child's 'close' or 'error' event
\* removes all handlers and leaves the invocation marked settled.
C34_ForwardingFrame ==
    /\ [][received' # received
            => \A i \in Invocations :
                 \/ inv'[i] = inv[i]
                 \/ inv'[i] = [inv[i] EXCEPT
                        !.kills = Append(@, received'[Len(received')])]]_vars
    /\ [][\A i \in Invocations :
            (\/ ~inv[i].closeDelivered /\ inv'[i].closeDelivered
             \/ ~inv[i].errorDelivered /\ inv'[i].errorDelivered)
              => /\ inv'[i].listeners = {}
                 /\ inv'[i].signalHandlers = {}
                 /\ inv'[i].settled
                 /\ inv'[i].kills = inv[i].kills]_vars

\* A signal was forwarded to a running child, which then closed: the
\* handlers are gone and the invocation is marked settled.
C34_Witness ==
    \E i \in Invocations :
        /\ Len(inv[i].kills) >= 1
        /\ inv[i].child = "exited"
        /\ inv[i].closeDelivered
        /\ inv[i].listeners = {}
        /\ inv[i].settled

\* A step of the scan: the loop of parseCommand handles one character.
ScanStep == scan'.i = scan.i + 1 /\ scan.i <= Len(scan.command)

QuoteChars == {"\"", "'"}

\* C35: inside a quoted span an unescaped character other than the
\* backslash is appended verbatim unless it is the quote character that
\* opened the span, which closes it and is not appended; outside a span an
\* unescaped quote character opens one and is not appended; neither step
\* ends the current argument.
C35_QuotedSpan ==
    [][(ScanStep /\ ~scan.st.escaped /\ scan.command[scan.i] # "\\")
        => LET char == scan.command[scan.i] IN
           /\ (scan.st.inQuotes # "" /\ char = scan.st.inQuotes)
                => scan'.st = [scan.st EXCEPT !.inQuotes = ""]
           /\ (scan.st.inQuotes # "" /\ char # scan.st.inQuotes)
                => scan'.st = [scan.st EXCEPT !.current = Append(@, char)]
           /\ (scan.st.inQuotes = "" /\ char \in QuoteChars)
                => scan'.st = [scan.st EXCEPT !.inQuotes = char]]_vars

\* a" '" was tokenized to the one argument made of a, a space and a single
\* quote.
C35_Witness ==
    /\ scan.returned
    /\ scan.command = <<"a", "\"", " ", "'", "\"">>
    /\ scan.result.ok
    /\ scan.result.args = << <<"a", " ", "'">> >>

\* C36: an unescaped backslash, outside or inside a quoted span, is not
\* appended and only marks the next character as escaped; an escaped
\* character is appended whatever it is, and opens or closes no span and
\* ends no argument.
C36_Backslash ==
    [][ScanStep
        => LET char == scan.command[scan.i] IN
           /\ (~scan.st.escaped /\ char = "\\")
                => scan'.st = [scan.st EXCEPT !.escaped = TRUE]
           /\ scan.st.escaped
                => scan'.st = [scan.st EXCEPT !.current = Append(@, char),
                                              !.escaped = FALSE]]_vars

\* '\'\ was scanned up to its last character: the escaped single quote was
\* appended inside the single-quoted span, which is still open, and the
\* second backslash was not appended.
C36_Witness ==
    /\ scan.command = <<"'", "\\", "'", "\\", " ">>
    /\ scan.i = 5
    /\ scan.st.inQuotes = "'"
    /\ scan.st.current = <<"'">>
    /\ scan.st.escaped
    /\ scan.st.args = <<>>

\* C39: no argument of the vector parseCommand builds or returns is empty.
C39_NoEmptyArgument ==
    /\ \A n \in 1..Len(scan.st.args) : Len(scan.st.args[n]) > 0
    /\ \A n \in 1..Len(scan.result.args) : Len(scan.result.args[n]) > 0

\* "" a, with two spaces after the empty quoted string, returned the one
\* argument a.
C39_Witness ==
    /\ scan.returned
    /\ scan.command = <<"\"", "\"", " ", " ", "a">>
    /\ scan.result.ok
    /\ scan.result.args = << <<"a">> >>

\* C37: with several invocations in flight, a received signal is sent once
\* to the child of every invocation whose handlers are registered, and to
\* no other; the handlers of an invocation are registered from its spawn
\* until its own child's 'close' or 'error' event, and the step that
\* delivers such an event to one invocation removes that invocation's
\* handlers and changes nothing of the others.
C37_OwnHandlersOnly ==
    /\ [](\A i \in Flights :
            (inv[i].child # "none" /\ ~inv[i].closeDelivered
                /\ ~inv[i].errorDelivered)
              => inv[i].listeners = signals)
    /\ [][received' # received
            => \A i \in Flights :
                 inv'[i].kills =
                    IF inv[i].listeners # {}
                    THEN Append(inv[i].kills, received'[Len(received')])
                    ELSE inv[i].kills]_vars
    /\ [][\A i \in Flights :
            (\/ ~inv[i].closeDelivered /\ inv'[i].closeDelivered
             \/ ~inv[i].errorDelivered /\ inv'[i].errorDelivered)
              => /\ inv'[i].listeners = {}
                 /\ \A j \in Flights \ {i} : inv'[j] = inv[j]]_vars

\* Two children were running together; the first closed, and a signal
\* received after that was sent to the second child only.
C37_Witness ==
    /\ inv[1].closeDelivered /\ inv[1].child = "exited"
    /\ inv[1].listeners = {} /\ inv[1].kills = <<>>
    /\ inv[2].child = "running"
    /\ inv[2].listeners = signals
    /\ Len(inv[2].kills) = 1

\* C38 as stated: an invocation whose promise is settled and that has no
\* child spawns none later, opens no write descriptor and registers no
\* signal handler.
C38_NoSpawnAfterSettle ==
    [][\A i \in Invocations :
        (inv[i].outcome # "pending" /\ inv[i].child = "none")
          => /\ inv'[i].child = "none"
             /\ inv'[i].fdState = inv[i].fdState
             /\ inv'[i].listeners = inv[i].listeners]_vars

====
